---------------------------- MODULE Spec2Model ----------------------------
(***************************************************************************)
(* The /query and /history handlers of src/main.py: dialect dispatch on    *)
(* the connection URL, the list-tables shortcut, schema introspection,     *)
(* model invocation, output sanitisation, execution, history persistence.  *)
(* Texts are TLA+ strings handled character by character, so that the      *)
(* string operations of the handlers (strip, split, join, lower, the       *)
(* regular expression) are computed as Python computes them.               *)
(***************************************************************************)
EXTENDS Integers, Sequences, FiniteSets, TLC

(***************************************************************************)
(* Python string primitives.                                               *)
(***************************************************************************)
Ch(s, i) == SubSeq(s, i, i)

Whitespace == {" ", "\n", "\t", "\r", "\f"}

UpperLetters == "ABCDEFGHIJKLMNOPQRSTUVWXYZ"

LowerLetters == "abcdefghijklmnopqrstuvwxyz"

DigitChars == "0123456789"

InStr(c, alphabet) == \E i \in 1..Len(alphabet) : Ch(alphabet, i) = c

\* str.lower() on one character
LowerCh(c) ==
  IF InStr(c, UpperLetters)
  THEN Ch(LowerLetters, CHOOSE i \in 1..Len(UpperLetters) : Ch(UpperLetters, i) = c)
  ELSE c

\* str.lower(); the text is bound as a value, computed once at each level
RECURSIVE Lower(_)
Lower(s) ==
  CHOOSE lowered \in
    {IF text = "" THEN "" ELSE LowerCh(Ch(text, 1)) \o Lower(SubSeq(text, 2, Len(text))) :
       text \in {s}} : TRUE

\* str.strip(): leading and trailing whitespace removed
Strip(s) ==
  LET keep == {i \in 1..Len(s) : Ch(s, i) \notin Whitespace}
  IN  IF keep = {} THEN ""
      ELSE SubSeq(s, CHOOSE i \in keep : \A j \in keep : i <= j,
                     CHOOSE i \in keep : \A j \in keep : i >= j)

StartsWith(s, p) == Len(s) >= Len(p) /\ SubSeq(s, 1, Len(p)) = p

EndsWith(s, p) == Len(s) >= Len(p) /\ SubSeq(s, Len(s) - Len(p) + 1, Len(s)) = p

\* the `in` operator on strings
Contains(s, needle) ==
  \E i \in 1..(Len(s) - Len(needle) + 1) : SubSeq(s, i, i + Len(needle) - 1) = needle

\* str.split("\n"): the list of lines, always at least one element
RECURSIVE SplitLines(_)
SplitLines(s) ==
  LET nl == {i \in 1..Len(s) : Ch(s, i) = "\n"}
  IN  IF nl = {} THEN <<s>>
      ELSE LET k == CHOOSE i \in nl : \A j \in nl : i <= j
           IN  <<SubSeq(s, 1, k - 1)>> \o SplitLines(SubSeq(s, k + 1, Len(s)))

\* "\n".join(lines)
RECURSIVE JoinLines(_)
JoinLines(lines) ==
  IF lines = <<>> THEN ""
  ELSE IF Len(lines) = 1 THEN lines[1]
  ELSE lines[1] \o "\n" \o JoinLines(Tail(lines))

\* a variant: the list slice [1:], which keeps the closing line
SliceFromSecond(lines) == SubSeq(lines, 2, Len(lines))

\* the list slice [1:-1]
SliceInner(lines) == SubSeq(lines, 2, Len(lines) - 1)


(***************************************************************************)
(* urllib.parse.urlparse, as far as the handler uses it: the scheme, and   *)
(* the ValueError it raises on a network location with an unmatched        *)
(* bracket.                                                                *)
(***************************************************************************)
SchemeChars == LowerLetters \o UpperLetters \o DigitChars \o "+-."

FirstIndex(s, stops) ==
  LET hit == {i \in 1..Len(s) : Ch(s, i) \in stops}
  IN  IF hit = {} THEN 0 ELSE CHOOSE i \in hit : \A j \in hit : i <= j

\* the scheme is split off when the text before the first ':' is non-empty,
\* starts with a letter and holds scheme characters only; it is lowercased
UrlHasScheme(url) ==
  LET i == FirstIndex(url, {":"})
  IN  /\ i > 1
      /\ InStr(Ch(url, 1), LowerLetters \o UpperLetters)
      /\ \A k \in 1..(i - 1) : InStr(Ch(url, k), SchemeChars)

UrlScheme(url) ==
  IF UrlHasScheme(url) THEN Lower(SubSeq(url, 1, FirstIndex(url, {":"}) - 1)) ELSE ""

UrlRest(url) ==
  IF UrlHasScheme(url) THEN SubSeq(url, FirstIndex(url, {":"}) + 1, Len(url)) ELSE url

\* the network location of what follows the scheme: the text between a
\* leading "//" and the first of "/", "?", "#"
NetlocOf(rest) ==
  LET after == SubSeq(rest, 3, Len(rest))
      stop == FirstIndex(after, {"/", "?", "#"})
  IN  IF StartsWith(rest, "//")
      THEN (IF stop = 0 THEN after ELSE SubSeq(after, 1, stop - 1))
      ELSE ""

UrlNetloc(url) == CHOOSE netloc \in {NetlocOf(rest) : rest \in {UrlRest(url)}} : TRUE

\* urlparse raises ValueError("Invalid IPv6 URL")
UrlParseRaises(url) ==
  \E netloc \in {UrlNetloc(url)} : Contains(netloc, "[") # Contains(netloc, "]")

(***************************************************************************)
(* get_list_tables_query and the list/show-tables pattern                  *)
(*   re.search(r"\b(?:list|show)\b.*\btables?\b", question, re.IGNORECASE) *)
(***************************************************************************)
PostgresListTables ==
  "SELECT table_name FROM information_schema.tables WHERE table_schema='public';"

MysqlListTables == "SHOW TABLES;"

SqliteListTables == "SELECT name FROM sqlite_master WHERE type='table';"

\* a variant: any other dialect is given the information_schema listing
get_list_tables_query_default(dialect) ==
  IF StartsWith(dialect, "mysql") THEN MysqlListTables
  ELSE IF StartsWith(dialect, "sqlite") THEN SqliteListTables
  ELSE PostgresListTables

\* a variant: the dialect is compared with the names, not with their prefixes
get_list_tables_query_exact(dialect) ==
  IF dialect = "postgres" THEN PostgresListTables
  ELSE IF dialect = "mysql" THEN MysqlListTables
  ELSE IF dialect = "sqlite" THEN SqliteListTables
  ELSE ""

get_list_tables_query(dialect) ==
  IF StartsWith(dialect, "postgres") THEN PostgresListTables
  ELSE IF StartsWith(dialect, "mysql") THEN MysqlListTables
  ELSE IF StartsWith(dialect, "sqlite") THEN SqliteListTables
  ELSE ""

WordChar(c) ==
  InStr(c, LowerLetters \o UpperLetters \o DigitChars \o "_")

IsWordAt(s, i) == i \in 1..Len(s) /\ WordChar(Ch(s, i))

\* \b between the characters i-1 and i
WordBoundary(s, i) == IsWordAt(s, i - 1) # IsWordAt(s, i)

\* \btables?\b matched from position q (the optional s is tried both ways)
MatchesTablesAt(s, q) ==
  /\ q + 4 <= Len(s)
  /\ WordBoundary(s, q)
  /\ Lower(SubSeq(s, q, q + 4)) = "table"
  /\ \/ WordBoundary(s, q + 5)
     \/ /\ q + 5 <= Len(s)
        /\ LowerCh(Ch(s, q + 5)) = "s"
        /\ WordBoundary(s, q + 6)

\* the whole pattern, searched from every position; '.' matches no newline
IsListTablesQuestion(question) ==
  \E p \in 1..(Len(question) - 3) :
    /\ Lower(SubSeq(question, p, p + 3)) \in {"list", "show"}
    /\ WordBoundary(question, p)
    /\ WordBoundary(question, p + 4)
    /\ \E q \in (p + 4)..Len(question) :
         /\ \A k \in (p + 4)..(q - 1) : Ch(question, k) # "\n"
         /\ MatchesTablesAt(question, q)

(***************************************************************************)
(* The sanitiser of the model output (both modes) and the finalisation of  *)
(* a SQL text.  The backtick cannot occur in a TLA+ string literal: the    *)
(* character "~" stands for it, and no input uses "~" for anything else.   *)
(***************************************************************************)
Backtick == "~"

Fence == Backtick \o Backtick \o Backtick

\* content = raw.strip(); if content.startswith(fence):
\*     content = "\n".join(content.split("\n")[1:-1]).strip()
StripFence(raw) ==
  LET content == Strip(raw)
  IN  IF StartsWith(content, Fence)
      THEN Strip(JoinLines(SliceInner(SplitLines(content))))
      ELSE content

InfoSchemaNeedle == "information_schema.tables"

\* a variant: the needle is searched in sql_query as it is, not in its lower case
SqliteRewriteCaseSensitive(scheme, sql_query) ==
  IF StartsWith(scheme, "sqlite") /\ Contains(sql_query, InfoSchemaNeedle)
  THEN SqliteListTables
  ELSE sql_query

SqliteRewrite(scheme, sql_query) ==
  IF StartsWith(scheme, "sqlite")
       /\ \E lowered \in {Lower(sql_query)} : Contains(lowered, InfoSchemaNeedle)
  THEN SqliteListTables
  ELSE sql_query

\* a variant: the terminator is appended without the endswith test
EnsureTerminatorAlways(sql_query) == sql_query \o ";"

EnsureTerminator(sql_query) ==
  IF ~EndsWith(sql_query, ";") THEN sql_query \o ";" ELSE sql_query

\* sql_query after the sanitiser, the rewrite and the terminator, each step
\* applied to the text the step before it produced
FinalizeSql(scheme, raw) ==
  CHOOSE final \in {EnsureTerminator(rewritten) :
                      rewritten \in {SqliteRewrite(scheme, content) :
                                       content \in {StripFence(raw)}}} : TRUE

(***************************************************************************)
(* Result values.  A cell is [kind, v]; a row is the ordered mapping       *)
(* column -> cell that dict(row._mapping) builds, a sequence of            *)
(* <<column, cell>> pairs.  json.dumps(rows) raises TypeError on a value   *)
(* it cannot serialise (a datetime); its text is built as Python does.     *)
(***************************************************************************)
IntCell(v) == [kind |-> "int", v |-> v]

StrCell(v) == [kind |-> "str", v |-> v]

DateCell(v) == [kind |-> "datetime", v |-> v]

JsonKinds == {"int", "str", "null"}

Quote(s) == "\"" \o s \o "\""

JsonCell(c) ==
  IF c.kind = "str" THEN Quote(c.v) ELSE IF c.kind = "null" THEN "null" ELSE c.v

RECURSIVE JsonRowItems(_)
JsonRowItems(row) ==
  IF row = <<>> THEN ""
  ELSE Quote(row[1][1]) \o ": " \o JsonCell(row[1][2])
       \o (IF Len(row) > 1 THEN ", " \o JsonRowItems(Tail(row)) ELSE "")

RECURSIVE JsonRowList(_)
JsonRowList(rows) ==
  IF rows = <<>> THEN ""
  ELSE "{" \o JsonRowItems(rows[1]) \o "}"
       \o (IF Len(rows) > 1 THEN ", " \o JsonRowList(Tail(rows)) ELSE "")

JsonSerializable(rows) ==
  \A i \in 1..Len(rows) : \A j \in 1..Len(rows[i]) : rows[i][j][2].kind \in JsonKinds

\* json.dumps(rows): the text, defined when JsonSerializable(rows)
JsonDumps(rows) == "[" \o JsonRowList(rows) \o "]"

(***************************************************************************)
(* What the target database can answer: a row set (column names and rows), *)
(* no row set (DDL/DML), or an error with its message.                     *)
(***************************************************************************)
CountResult ==
  [columns |-> <<"COUNT(*)">>, rows |-> << << <<"COUNT(*)", IntCell("5")>> >> >>]

TablesResult ==
  [columns |-> <<"name">>,
   rows |-> << << <<"name", StrCell("users")>> >>, << <<"name", StrCell("orders")>> >> >>]

EmptyResult == [columns |-> <<"id", "name">>, rows |-> <<>>]

DateResult ==
  [columns |-> <<"id", "created">>,
   rows |-> << << <<"id", IntCell("1")>>, <<"created", DateCell("2024-01-01 00:00:00")>> >> >>]

ResultSets == {CountResult, TablesResult, EmptyResult, DateResult}

\* the documents a find returns, with string _id as in the tests
UserDocs ==
  << << <<"_id", StrCell("id1")>>, <<"name", StrCell("User1")>> >>,
     << <<"_id", StrCell("id2")>>, <<"status", StrCell("active")>> >> >>

OneDoc == << << <<"_id", StrCell("id1")>> >> >>

DocSets == {<<>>, OneDoc, UserDocs}

AllRowSets == {rs.rows : rs \in ResultSets} \cup DocSets

\* json.loads on a text the history store holds: the rows that text serialises
JsonLoads(text) ==
  CHOOSE rows \in AllRowSets : JsonSerializable(rows) /\ JsonDumps(rows) = text

ExecErrors ==
  {"(sqlite3.OperationalError) no such table: users",
   "relation \"users\" does not exist",
   "(psycopg2.errors.UndefinedTable) users",
   "syntax error at or near \"FROM\""}

EngineError == "Could not parse SQLAlchemy URL from string"

ConnectErrors == {"connection refused"}

\* the tables of the target database and their columns
TableColumns(t) == IF t = "users" THEN <<"id", "name">> ELSE <<"id">>

TargetSchemas == {<<>>, <<"users">>, <<"users", "orders">>}

RECURSIVE JoinWith(_, _)
JoinWith(parts, sep) ==
  IF parts = <<>> THEN ""
  ELSE IF Len(parts) = 1 THEN parts[1]
  ELSE parts[1] \o sep \o JoinWith(Tail(parts), sep)

\* "; ".join(f"{tbl_name}({', '.join(cols)})" ...)
SchemaInfo(tables) ==
  JoinWith([i \in 1..Len(tables) |->
              tables[i] \o "(" \o JoinWith(TableColumns(tables[i]), ", ") \o ")"], "; ")

(***************************************************************************)
(* The model replies on the document-store path and json.loads on them:    *)
(* the parse of each reply the model is taken to give, anything else being *)
(* invalid JSON.                                                           *)
(***************************************************************************)
FindActiveUsers == "{\"collection\": \"users\", \"filter\": {\"status\": \"active\"}}"

FindAllUsers == "{\"collection\": \"users\"}"

FilterOnly == "{\"filter\": {\"status\": \"active\"}}"

JsonArray == "[\"users\"]"

JsonObjects ==
  {[text |-> FindActiveUsers, object |-> TRUE, keys |-> {"collection", "filter"},
    collection |-> "users", filter |-> "{\"status\": \"active\"}"],
   [text |-> FindAllUsers, object |-> TRUE, keys |-> {"collection"},
    collection |-> "users", filter |-> ""],
   [text |-> FilterOnly, object |-> TRUE, keys |-> {"filter"},
    collection |-> "", filter |-> "{\"status\": \"active\"}"],
   [text |-> JsonArray, object |-> FALSE, keys |-> {},
    collection |-> "", filter |-> ""]}

\* a variant: query_def.get("collection", ""), a missing collection is no error
ParseQueryDefLenient(content) ==
  IF \E d \in JsonObjects : d.text = content
  THEN LET d == CHOOSE d \in JsonObjects : d.text = content
       IN  IF ~d.object
           THEN [ok |-> FALSE, error |-> "'list' object has no attribute 'get'",
                 coll_name |-> "", filter_def |-> ""]
           ELSE [ok |-> TRUE, error |-> "", coll_name |-> d.collection,
                 filter_def |-> IF "filter" \in d.keys THEN d.filter ELSE "{}"]
  ELSE [ok |-> FALSE, error |-> "Expecting value: line 1 column 1 (char 0)",
        coll_name |-> "", filter_def |-> ""]

\* a variant: the filter of the reply is not read
ParseQueryDefNoFilter(content) ==
  IF content \in {FindActiveUsers, FindAllUsers}
  THEN [ok |-> TRUE, error |-> "", coll_name |-> "users", filter_def |-> "{}"]
  ELSE [ok |-> FALSE, error |-> "Expecting value: line 1 column 1 (char 0)",
        coll_name |-> "", filter_def |-> ""]

\* query_def = json.loads(content); coll_name = query_def["collection"];
\* filter_def = query_def.get("filter", {})
ParseQueryDef(content) ==
  IF \E d \in JsonObjects : d.text = content
  THEN LET d == CHOOSE d \in JsonObjects : d.text = content
       IN  IF ~d.object
           THEN [ok |-> FALSE, error |-> "list indices must be integers or slices, not str",
                 coll_name |-> "", filter_def |-> ""]
           ELSE IF "collection" \notin d.keys
           THEN [ok |-> FALSE, error |-> "'collection'", coll_name |-> "", filter_def |-> ""]
           ELSE [ok |-> TRUE, error |-> "", coll_name |-> d.collection,
                 filter_def |-> IF "filter" \in d.keys THEN d.filter ELSE "{}"]
  ELSE [ok |-> FALSE, error |-> "Expecting value: line 1 column 1 (char 0)",
        coll_name |-> "", filter_def |-> ""]

(***************************************************************************)
(* datetime.utcnow().isoformat() and the TEXT order of created_at.  The    *)
(* clock counts seconds and microseconds from 2023-01-01T00:00:00.         *)
(***************************************************************************)
RECURSIVE DigitStr(_, _)
DigitStr(n, width) ==
  IF width = 0 THEN "" ELSE DigitStr(n \div 10, width - 1) \o Ch(DigitChars, (n % 10) + 1)

\* isoformat leaves the fraction out when the microsecond is 0
IsoFormat(t) ==
  "2023-01-01T00:00:" \o DigitStr(t.sec, 2)
    \o (IF t.micro = 0 THEN "" ELSE "." \o DigitStr(t.micro, 6))

\* the characters of a timestamp in code-point order (SQLite's BINARY collation)
Collation == "-.0123456789:T"

CodeOf(c) == CHOOSE i \in 1..Len(Collation) : Ch(Collation, i) = c

RECURSIVE TextLeq(_, _)
TextLeq(a, b) ==
  IF a = "" THEN TRUE
  ELSE IF b = "" THEN FALSE
  ELSE IF Ch(a, 1) = Ch(b, 1) THEN TextLeq(SubSeq(a, 2, Len(a)), SubSeq(b, 2, Len(b)))
  ELSE CodeOf(Ch(a, 1)) < CodeOf(Ch(b, 1))

(***************************************************************************)
(* The prompts of the two modes.                                           *)
(***************************************************************************)
MongoPrompt ==
  "You are an assistant that converts natural language questions into MongoDB find queries. "
  \o "Respond with a JSON object with keys 'collection' and 'filter' only, without explanation."

SchemaClause == " This database has the following tables: "

SqlPrompt(scheme, schema_info) ==
  (IF StartsWith(scheme, "sqlite")
   THEN "You are an assistant that converts natural language questions into SQL queries for SQLite databases. "
        \o "Use SQLite-specific syntax (e.g., pragma, sqlite_master) for metadata. "
   ELSE "You are an assistant that converts natural language questions into SQL queries for SQL databases. ")
  \o "Respond with only the SQL query without explanation or formatting."
  \o (IF schema_info # "" THEN SchemaClause \o schema_info ELSE "")

(***************************************************************************)
(* State.  A request slot r holds one HTTP request: pc[r] is the place the *)
(* handler has reached, req[r] the request, loc[r] the handler's local     *)
(* variables, resp[r] the response, stages[r] the stages passed, in order. *)
(* history is the query_history table, clock the last reading of the wall  *)
(* clock, target the statements committed to the target database.          *)
(***************************************************************************)
MaxRequests == 3

\* the slots of the /query requests, and HistorySlot for a /history request
Reqs == 0..MaxRequests

HistorySlot == 0

DefaultLimit == 100

VARIABLES pc, req, loc, resp, modelCalls, stages, history, clock, target

vars == <<pc, req, loc, resp, modelCalls, stages, history, clock, target>>

NoReq == [kind |-> "none", question |-> "", connection_url |-> "", limit |-> 0]

NoLoc ==
  [scheme |-> "", raw |-> "", sanitized |-> "", content |-> "", coll_name |-> "", filter_def |-> "",
   is_list_tables_query |-> FALSE, sql_query |-> "", engine |-> "unset",
   metadata |-> [none |-> TRUE, tables |-> <<>>], reflected |-> FALSE,
   schema_info |-> "", system_prompt |-> "",
   result |-> [returns_rows |-> FALSE, keys |-> <<>>, fetched |-> <<>>],
   client |-> "unset", find |-> [called |-> FALSE, collection |-> "", filter |-> ""],
   tx |-> "none",
   rows |-> <<>>, columns |-> <<>>, err_msg |-> "", append |-> "none"]

NoResp ==
  [status |-> 0, detail |-> "", by |-> "", sql |-> "", columns |-> <<>>,
   rows |-> <<>>, items |-> <<>>]

Init ==
  /\ pc = [r \in Reqs |-> "idle"]
  /\ req = [r \in Reqs |-> NoReq]
  /\ loc = [r \in Reqs |-> NoLoc]
  /\ resp = [r \in Reqs |-> NoResp]
  /\ modelCalls = [r \in Reqs |-> 0]
  /\ stages = [r \in Reqs |-> <<>>]
  /\ history = <<>>
  /\ clock = [sec |-> 0, micro |-> 999998]
  /\ target = {}

\* raise HTTPException(status_code, detail): the request ends with that response
Raise(r, status, detail, marks) ==
  /\ pc' = [pc EXCEPT ![r] = "Failed"]
  /\ stages' = [stages EXCEPT ![r] = @ \o marks]
  /\ resp' = [resp EXCEPT ![r] = [NoResp EXCEPT !.status = status, !.detail = detail,
                                                !.by = "HTTPException"]]

\* a variant: no handler is registered for the exceptions the route lets out,
\* and the request is left without an answer
UnhandledUnanswered(r, exc) == UNCHANGED <<pc, stages, resp>>

\* an exception no try block of the handler catches: generic_exception_handler
Unhandled(r, exc) ==
  /\ pc' = [pc EXCEPT ![r] = "Failed"]
  /\ UNCHANGED stages
  /\ resp' = [resp EXCEPT ![r] = [NoResp EXCEPT !.status = 500, !.detail = exc,
                                                !.by = "generic_exception_handler"]]

Pass(r, to, marks) ==
  /\ pc' = [pc EXCEPT ![r] = to]
  /\ stages' = [stages EXCEPT ![r] = @ \o marks]

IsMongo(r) == StartsWith(loc[r].scheme, "mongodb")

\* content if scheme.startswith("mongodb") else sql_query
DisplayQuery(l) == IF StartsWith(l.scheme, "mongodb") THEN l.content ELSE l.sql_query

(***************************************************************************)
(* POST /query, translate_and_query.  Each action is one stretch of the    *)
(* handler between two calls that leave the process; `in` holds the sets   *)
(* the request and the answers of the outside world are drawn from.        *)
(***************************************************************************)
Receive(r, in) ==
  /\ pc[r] = "idle"
  /\ r # HistorySlot
  /\ \E q \in in.questions, u \in in.urls :
       req' = [req EXCEPT ![r] = [kind |-> "query", question |-> q,
                                  connection_url |-> u, limit |-> 0]]
  /\ Pass(r, "Received", <<"Received">>)
  /\ UNCHANGED <<loc, resp, modelCalls, history, clock, target>>

\* parsed = urlparse(req.connection_url); scheme = parsed.scheme
ResolveDialect(r) ==
  /\ pc[r] = "Received"
  /\ IF UrlParseRaises(req[r].connection_url)
     THEN /\ Unhandled(r, "Invalid IPv6 URL")
          /\ UNCHANGED loc
     ELSE /\ loc' = [loc EXCEPT ![r].scheme = UrlScheme(req[r].connection_url)]
          /\ Pass(r, "DialectResolved", <<"DialectResolved">>)
          /\ UNCHANGED resp
  /\ UNCHANGED <<req, modelCalls, history, clock, target>>

\* a variant: the detail of the relational path on both paths
GenerationErrorDetailSql(mongo, e) == "Error generating SQL: " \o e

\* the detail of the 500 raised when the generation of the query raises e
GenerationErrorDetail(mongo, e) ==
  (IF mongo THEN "Error generating MongoDB query: " ELSE "Error generating SQL: ") \o e

\* openai.ChatCompletion.create: an exception, or the text of the reply
ModelOutcomes(errors, replies) ==
  {[raised |-> TRUE, text |-> e] : e \in errors}
    \cup {[raised |-> FALSE, text |-> t] : t \in replies}

\* the document-store branch: prompt, model call, sanitiser, json.loads
MongoGenerate(r, in) ==
  /\ pc[r] = "DialectResolved"
  /\ IsMongo(r)
  /\ modelCalls' = [modelCalls EXCEPT ![r] = @ + 1]
  /\ \E o \in ModelOutcomes(in.modelErrors, in.docReplies) :
       \E content \in {StripFence(o.text)} :
       \E parsed \in {ParseQueryDef(content)} :
           IF o.raised
           THEN /\ loc' = [loc EXCEPT ![r].system_prompt = MongoPrompt]
                /\ Raise(r, 500, GenerationErrorDetail(TRUE, o.text),
                         <<"PromptBuilt">>)
           ELSE IF ~parsed.ok
           THEN /\ loc' = [loc EXCEPT ![r].system_prompt = MongoPrompt,
                                      ![r].raw = o.text,
                                      ![r].sanitized = content,
                                      ![r].content = content]
                /\ Raise(r, 500, GenerationErrorDetail(TRUE, parsed.error),
                         <<"PromptBuilt", "ModelInvoked">>)
           ELSE /\ loc' = [loc EXCEPT ![r].system_prompt = MongoPrompt,
                                      ![r].raw = o.text,
                                      ![r].sanitized = content,
                                      ![r].content = content,
                                      ![r].coll_name = parsed.coll_name,
                                      ![r].filter_def = parsed.filter_def]
                /\ Pass(r, "Sanitized", <<"PromptBuilt", "ModelInvoked", "Sanitized">>)
                /\ UNCHANGED resp
  /\ UNCHANGED <<req, history, clock, target>>

Perms(S) ==
  {f \in [1..Cardinality(S) -> S] : \A i, j \in 1..Cardinality(S) : f[i] = f[j] => i = j}

\* the keys of the documents; a set, whose order in list(...) is arbitrary
KeysOf(docs) ==
  UNION {{docs[i][j][1] : j \in 1..Len(docs[i])} : i \in 1..Len(docs)}

\* MongoClient(url)[dbname][coll_name].find(filter_def): an exception, or
\* the documents found
FindOutcomes(in) ==
  {[ok |-> FALSE, error |-> e, docs |-> <<>>] : e \in in.connectErrors}
    \cup {[ok |-> TRUE, error |-> "", docs |-> d] : d \in in.docs}

MongoExecute(r, in) ==
  /\ pc[r] = "Sanitized"
  /\ IsMongo(r)
  /\ \E o \in FindOutcomes(in) : \E columns \in Perms(KeysOf(o.docs)) :
       IF ~o.ok
       THEN /\ loc' = [loc EXCEPT ![r].client = "created", ![r].err_msg = o.error]
            /\ Raise(r, 400, "MongoDB execution error: " \o o.error, <<>>)
       ELSE /\ loc' = [loc EXCEPT ![r].client = "created",
                                  ![r].find = [called |-> TRUE,
                                               collection |-> loc[r].coll_name,
                                               filter |-> loc[r].filter_def],
                                  ![r].rows = o.docs, ![r].columns = columns]
            /\ Pass(r, "Executed", <<"Executed">>)
            /\ UNCHANGED resp
  /\ UNCHANGED <<req, modelCalls, history, clock, target>>

\* is_list_tables_query and a non-empty get_list_tables_query(scheme)
TakesShortcut(r) ==
  /\ IsListTablesQuestion(req[r].question)
  /\ get_list_tables_query(loc[r].scheme) # ""

\* what create_engine and the execution of a statement can do: create_engine
\* raises, the connection or the statement raises, a row set comes back, or
\* the statement returns no row set
EngineOutcomes(in) ==
  {[kind |-> "engine", error |-> e, returns_rows |-> FALSE, rs |-> EmptyResult] :
     e \in in.engineErrors}

StatementOutcomes(in, errors, flags) ==
  {[kind |-> "error", error |-> e, returns_rows |-> FALSE, rs |-> EmptyResult] :
     e \in errors}
    \cup (IF TRUE \in flags
          THEN {[kind |-> "done", error |-> "", returns_rows |-> TRUE, rs |-> rs] :
                  rs \in in.results}
          ELSE {})
    \cup (IF FALSE \in flags
          THEN {[kind |-> "done", error |-> "", returns_rows |-> FALSE,
                 rs |-> [columns |-> <<>>, rows |-> <<>>]]}
          ELSE {})

\* the list-tables shortcut: create_engine, engine.connect(), execute, fetchall
ListTablesShortcut(r, in) ==
  /\ pc[r] = "DialectResolved"
  /\ ~IsMongo(r)
  /\ TakesShortcut(r)
  /\ \E o \in EngineOutcomes(in) \cup StatementOutcomes(in, in.connectErrors, {TRUE}) :
       LET found == [loc EXCEPT ![r].is_list_tables_query = TRUE,
                                ![r].sql_query = get_list_tables_query(loc[r].scheme),
                                ![r].engine = IF o.kind = "engine" THEN "error" ELSE "ok"]
       IN  IF o.kind # "done"
           THEN /\ loc' = [found EXCEPT ![r].err_msg = o.error]
                /\ Raise(r, 400, "Error executing list tables query: " \o o.error, <<>>)
           ELSE /\ loc' = [found EXCEPT ![r].result = [returns_rows |-> TRUE,
                                                       keys |-> o.rs.columns,
                                                       fetched |-> o.rs.rows],
                                        ![r].rows = o.rs.rows,
                                        ![r].columns = o.rs.columns]
                /\ Pass(r, "Executed", <<"Executed">>)
                /\ UNCHANGED resp
  /\ UNCHANGED <<req, modelCalls, history, clock, target>>

\* schema introspection: create_engine raises (metadata stays None), reflect
\* succeeds, or reflect raises after some of the tables
IntrospectOutcomes(in) ==
  {[engine |-> "error", reflected |-> FALSE, none |-> TRUE, tables |-> <<>>] :
     e \in in.engineErrors}
    \cup {[engine |-> "ok", reflected |-> TRUE, none |-> FALSE, tables |-> t] :
            t \in in.schemas}
    \cup UNION {{[engine |-> "ok", reflected |-> FALSE, none |-> FALSE,
                   tables |-> SubSeq(t, 1, k)] : k \in 0..(Len(t) - 1)} :
                 t \in in.brokenSchemas}

\* a variant: an exception of the introspection is not caught
IntrospectPropagating(r, in) ==
  /\ pc[r] = "DialectResolved"
  /\ ~IsMongo(r)
  /\ ~TakesShortcut(r)
  /\ \E o \in IntrospectOutcomes(in) :
       /\ loc' = [loc EXCEPT ![r].engine = o.engine,
                             ![r].reflected = o.reflected,
                             ![r].metadata = [none |-> o.none, tables |-> o.tables],
                             ![r].schema_info = IF o.reflected THEN SchemaInfo(o.tables)
                                                ELSE ""]
       /\ IF o.reflected
          THEN Pass(r, "SchemaIntrospected", <<"SchemaIntrospected">>) /\ UNCHANGED resp
          ELSE Raise(r, 500, "Error introspecting schema", <<>>)
  /\ UNCHANGED <<req, modelCalls, history, clock, target>>

\* any exception leaves schema_info = "" and metadata as far as it got
Introspect(r, in) ==
  /\ pc[r] = "DialectResolved"
  /\ ~IsMongo(r)
  /\ ~TakesShortcut(r)
  /\ \E o \in IntrospectOutcomes(in) :
       loc' = [loc EXCEPT ![r].engine = o.engine,
                          ![r].reflected = o.reflected,
                          ![r].metadata = [none |-> o.none, tables |-> o.tables],
                          ![r].schema_info = IF o.reflected THEN SchemaInfo(o.tables)
                                             ELSE ""]
  /\ Pass(r, "SchemaIntrospected", <<"SchemaIntrospected">>)
  /\ UNCHANGED <<req, resp, modelCalls, history, clock, target>>

\* the relational branch: prompt, model call, sanitiser, rewrite, terminator
GenerateSQL(r, in) ==
  /\ pc[r] = "SchemaIntrospected"
  /\ modelCalls' = [modelCalls EXCEPT ![r] = @ + 1]
  /\ \E o \in ModelOutcomes(in.modelErrors, in.sqlReplies) :
       LET system_prompt == SqlPrompt(loc[r].scheme, loc[r].schema_info)
       IN  IF o.raised
           THEN /\ loc' = [loc EXCEPT ![r].system_prompt = system_prompt]
                /\ Raise(r, 500, GenerationErrorDetail(FALSE, o.text), <<"PromptBuilt">>)
           ELSE /\ loc' = [loc EXCEPT ![r].system_prompt = system_prompt,
                                      ![r].raw = o.text,
                                      ![r].sanitized = StripFence(o.text),
                                      ![r].sql_query = FinalizeSql(loc[r].scheme, o.text)]
                /\ Pass(r, "Sanitized", <<"PromptBuilt", "ModelInvoked", "Sanitized">>)
                /\ UNCHANGED resp
  /\ UNCHANGED <<req, history, clock, target>>

\* a variant: the clause is left out when metadata holds no table
ExecErrorDetailOmitting(err_msg, metadata) ==
  IF Contains(err_msg, "does not exist") \/ Contains(err_msg, "UndefinedTable")
  THEN IF ~metadata.none /\ metadata.tables # <<>>
       THEN err_msg \o ". Available tables: " \o JoinWith(metadata.tables, ", ")
       ELSE err_msg
  ELSE "SQL execution error: " \o err_msg

\* the detail of the 400 raised on an execution error of the general path
ExecErrorDetail(err_msg, metadata) ==
  IF Contains(err_msg, "does not exist") \/ Contains(err_msg, "UndefinedTable")
  THEN err_msg \o ". Available tables: "
       \o (IF ~metadata.none THEN JoinWith(metadata.tables, ", ") ELSE "")
  ELSE "SQL execution error: " \o err_msg

\* a variant: no transaction, what the statement did before it raised stays
ExecFailedAutocommit(r, err_msg) ==
  /\ loc' = [loc EXCEPT ![r].err_msg = err_msg, ![r].tx = "none"]
  /\ Raise(r, 400, ExecErrorDetail(err_msg, loc[r].metadata), <<>>)
  /\ target' = IF loc[r].engine = "error" THEN target ELSE target \cup {loc[r].sql_query}

\* a variant: the exception of the execution is answered as a server error
ExecFailedServerError(r, err_msg) ==
  /\ loc' = [loc EXCEPT ![r].err_msg = err_msg,
                        ![r].tx = IF loc[r].engine = "error" THEN "none" ELSE "rolled back"]
  /\ Raise(r, 500, ExecErrorDetail(err_msg, loc[r].metadata), <<>>)
  /\ UNCHANGED target

\* the statement raised: rollback, 400
ExecFailed(r, err_msg) ==
  /\ loc' = [loc EXCEPT ![r].err_msg = err_msg,
                        ![r].tx = IF loc[r].engine = "error" THEN "none" ELSE "rolled back"]
  /\ Raise(r, 400, ExecErrorDetail(err_msg, loc[r].metadata), <<>>)
  /\ UNCHANGED target

\* a variant: the rows are fetched without the returns_rows test, and fetchall
\* raises on a result that returns none
ExecSucceededFetchAll(r, result) ==
  IF result.returns_rows
  THEN /\ loc' = [loc EXCEPT ![r].result = result,
                             ![r].tx = "committed",
                             ![r].rows = result.fetched,
                             ![r].columns = result.keys]
       /\ Pass(r, "Executed", <<"Executed">>)
       /\ UNCHANGED <<resp, target>>
  ELSE /\ loc' = [loc EXCEPT ![r].err_msg = "This result object does not return rows.",
                             ![r].tx = "rolled back"]
       /\ Raise(r, 400, "SQL execution error: This result object does not return rows.",
                <<>>)
       /\ UNCHANGED target

\* the statement ran: rows and columns of its row set, or both empty when it
\* returns none; the transaction commits on leaving the block
ExecSucceeded(r, result) ==
  /\ loc' = [loc EXCEPT ![r].result = result,
                        ![r].tx = "committed",
                        ![r].rows = IF result.returns_rows THEN result.fetched ELSE <<>>,
                        ![r].columns = IF result.returns_rows THEN result.keys ELSE <<>>]
  /\ Pass(r, "Executed", <<"Executed">>)
  /\ UNCHANGED resp
  /\ target' = IF result.returns_rows THEN target ELSE target \cup {loc[r].sql_query}

\* the general path: create_engine, engine.begin(), execute
ExecuteSQL(r, in) ==
  /\ pc[r] = "Sanitized"
  /\ ~IsMongo(r)
  /\ \E o \in IF loc[r].engine = "error"
              THEN {[kind |-> "engine", error |-> EngineError, returns_rows |-> FALSE,
                     rs |-> EmptyResult]}
              ELSE StatementOutcomes(in, in.connectErrors \cup in.errors, in.returns_rows) :
       IF o.kind # "done"
       THEN ExecFailed(r, o.error)
       ELSE ExecSucceeded(r, [returns_rows |-> o.returns_rows, keys |-> o.rs.columns,
                              fetched |-> o.rs.rows])
  /\ UNCHANGED <<req, modelCalls, history, clock>>

(***************************************************************************)
(* The calls of create_engine.  history_engine is created once, when the   *)
(* module is imported, with the URL of history.db; the handler calls       *)
(* create_engine with req.connection_url only (shortcut, introspection,    *)
(* execution) and reaches the history store through history_engine.        *)
(***************************************************************************)
HistoryUrl == "sqlite:///src/history.db"

\* the URLs create_engine was called with while request r was handled
CreateEngineUrls(r) ==
  IF loc[r].engine # "unset" THEN {req[r].connection_url} ELSE {}

(***************************************************************************)
(* Persist to history (best effort) and answer.                            *)
(***************************************************************************)
RECURSIVE Later(_, _)
Later(t, micros) ==
  IF micros = 0 THEN t
  ELSE Later(IF t.micro = 999999 THEN [sec |-> t.sec + 1, micro |-> 0]
             ELSE [sec |-> t.sec, micro |-> t.micro + 1], micros - 1)

\* a variant: the question is read from a variable the requests share, which
\* holds the question of the request in the lowest slot
HistoryEntryShared(r, now) ==
  [id |-> Len(history) + 1,
   question |-> req[CHOOSE q \in Reqs :
                      /\ req[q].kind = "query"
                      /\ \A o \in Reqs : req[o].kind = "query" => q <= o].question,
   sql |-> DisplayQuery(loc[r]),
   result |-> JsonDumps(loc[r].rows),
   created_at |-> IsoFormat(now)]

\* a variant: sql_query is stored on every path, the document-store one too
HistoryEntrySqlQuery(r, now) ==
  [id |-> Len(history) + 1,
   question |-> req[r].question,
   sql |-> loc[r].sql_query,
   result |-> JsonDumps(loc[r].rows),
   created_at |-> IsoFormat(now)]

\* the row the INSERT adds; id is the AUTOINCREMENT key
HistoryEntry(r, now) ==
  [id |-> Len(history) + 1,
   question |-> req[r].question,
   sql |-> DisplayQuery(loc[r]),
   result |-> JsonDumps(loc[r].rows),
   created_at |-> IsoFormat(now)]

\* a variant: the exception of the append is not caught
HistoryAppendFailedRaises(r, why) ==
  /\ loc' = [loc EXCEPT ![r].append = why]
  /\ Raise(r, 500, "Error saving history: " \o why, <<>>)
  /\ UNCHANGED history

\* except Exception: pass
HistoryAppendFailed(r, why) ==
  /\ loc' = [loc EXCEPT ![r].append = why]
  /\ Pass(r, "HistoryAppended", <<"HistoryAppended">>)
  /\ UNCHANGED <<resp, history>>

\* a variant: the INSERT is run twice
HistoryAppendedTwice(r, now) ==
  /\ history' = Append(Append(history, HistoryEntry(r, now)),
                       [HistoryEntry(r, now) EXCEPT !.id = Len(history) + 2])
  /\ loc' = [loc EXCEPT ![r].append = "stored"]
  /\ Pass(r, "HistoryAppended", <<"HistoryAppended">>)
  /\ UNCHANGED resp

HistoryAppended(r, now) ==
  /\ history' = Append(history, HistoryEntry(r, now))
  /\ loc' = [loc EXCEPT ![r].append = "stored"]
  /\ Pass(r, "HistoryAppended", <<"HistoryAppended">>)
  /\ UNCHANGED resp

\* datetime.utcnow() reads the clock, in.elapsed microseconds after its last
\* reading; json.dumps(rows) may raise, and so may the INSERT
AppendHistory(r, in) ==
  /\ pc[r] = "Executed"
  /\ \E micros \in in.elapsed, up \in in.storeUp :
       /\ clock' = Later(clock, micros)
       /\ IF ~JsonSerializable(loc[r].rows)
          THEN HistoryAppendFailed(r, "unserializable")
          ELSE IF ~up
          THEN HistoryAppendFailed(r, "outage")
          ELSE HistoryAppended(r, Later(clock, micros))
  /\ UNCHANGED <<req, modelCalls, target>>

\* a variant: the response is returned before the history is written
RespondBeforeAppend(r) ==
  /\ pc[r] = "Executed"
  /\ resp' = [resp EXCEPT ![r] = [NoResp EXCEPT !.status = 200, !.by = "handler",
                                                !.sql = DisplayQuery(loc[r]),
                                                !.columns = loc[r].columns,
                                                !.rows = loc[r].rows]]
  /\ Pass(r, "Responded", <<"Responded">>)
  /\ UNCHANGED <<req, loc, modelCalls, history, clock, target>>

\* return QueryResponse(sql=display_query, columns=columns, rows=rows)
Respond(r) ==
  /\ pc[r] = "HistoryAppended"
  /\ resp' = [resp EXCEPT ![r] = [NoResp EXCEPT !.status = 200, !.by = "handler",
                                                !.sql = DisplayQuery(loc[r]),
                                                !.columns = loc[r].columns,
                                                !.rows = loc[r].rows]]
  /\ Pass(r, "Responded", <<"Responded">>)
  /\ UNCHANGED <<req, loc, modelCalls, history, clock, target>>

(***************************************************************************)
(* GET /history, get_history.                                              *)
(***************************************************************************)
Min(a, b) == IF a <= b THEN a ELSE b

\* LIMIT :limit on n rows; SQLite reads a negative LIMIT as no limit
EffectiveLimit(limit, n) == IF limit < 0 THEN n ELSE Min(limit, n)

\* a variant: ORDER BY created_at ASC
Ascends(a, b) == TextLeq(a.created_at, b.created_at)

\* ORDER BY created_at DESC: a comes no later than b in the result
Descends(a, b) == TextLeq(b.created_at, a.created_at)

\* the selections ORDER BY created_at DESC LIMIT :limit may return: the
\* order among equal created_at is not determined
HistorySelect(h, limit) ==
  LET n == Len(h)
      k == EffectiveLimit(limit, n)
  IN  {p \in [1..k -> 1..n] :
         /\ \A i, j \in 1..k : p[i] = p[j] => i = j
         /\ \A i \in 1..(k - 1) : Descends(h[p[i]], h[p[i + 1]])
         /\ \A m \in 1..n : (\A i \in 1..k : p[i] # m) =>
              \A i \in 1..k : Descends(h[p[i]], h[m])}

HistoryItem(e) ==
  [id |-> e.id, question |-> e.question, sql |-> e.sql,
   rows |-> JsonLoads(e.result), created_at |-> e.created_at]

\* the limit parameter of the request: given, or left to its default
LimitParams(limits) ==
  {[given |-> TRUE, limit |-> l] : l \in limits}
    \cup {[given |-> FALSE, limit |-> DefaultLimit]}

\* a variant: an exception of the read is answered with an empty selection
ReadOutcomesSilent(in, limit) ==
  {[ok |-> TRUE, error |-> e, p |-> <<>>] : e \in in.readErrors}
    \cup {[ok |-> TRUE, error |-> "", p |-> p] : p \in HistorySelect(history, limit)}

\* the read of the store: an exception, or a selection of its rows
ReadOutcomes(in, limit) ==
  {[ok |-> FALSE, error |-> e, p |-> <<>>] : e \in in.readErrors}
    \cup {[ok |-> TRUE, error |-> "", p |-> p] : p \in HistorySelect(history, limit)}

GetHistory(r, in) ==
  /\ pc[r] = "idle"
  /\ r = HistorySlot
  /\ \E param \in LimitParams(in.limits) : \E o \in ReadOutcomes(in, param.limit) :
       /\ req' = [req EXCEPT ![r] = [kind |-> IF param.given THEN "history?limit"
                                              ELSE "history",
                                     question |-> "", connection_url |-> "",
                                     limit |-> param.limit]]
       /\ loc' = [loc EXCEPT ![r].err_msg = o.error]
       /\ IF ~o.ok
          THEN Raise(r, 500, "Error fetching history: " \o o.error, <<>>)
          ELSE /\ resp' = [resp EXCEPT ![r] =
                    [NoResp EXCEPT !.status = 200, !.by = "handler",
                                   !.items = [i \in 1..Len(o.p) |->
                                                HistoryItem(history[o.p[i]])]]]
               /\ Pass(r, "Responded", <<"Responded">>)
  /\ UNCHANGED <<modelCalls, history, clock, target>>

(***************************************************************************)
(* The inputs: requests, model replies and answers of the outside world.   *)
(***************************************************************************)
\* a text wrapped in a code fence, with an optional language tag
Wrap(tag, t) == Fence \o tag \o "\n" \o t \o "\n" \o Fence

FenceTags == {"", "sql"}

Interiors ==
  {"SELECT 1", "  SELECT 1 ;\n", "SELECT 1\n\nFROM t", "a\n~~~\nb", "",
   "select * from Information_Schema.Tables", FindActiveUsers}

Fenced == {Wrap(tag, t) : tag \in FenceTags, t \in Interiors}

Urls ==
  {"postgresql://u:p@h/db", "mysql+pymysql://u@h/db", "sqlite:///test.db",
   "SQLITE:///test.db", "mongodb://localhost/testdb", "mongodb+srv://h/testdb",
   "mssql://h/db", "test.db", "sqlite://[h/db"}

Questions ==
  {"list tables", "Show me all the TABLES", "list\ntables", "playlist tables",
   "count users"}

SqlReplies ==
  {"SELECT COUNT(*) FROM users", " SELECT COUNT(*) FROM users;\n", "SELECT 1;;", "",
   "SELECT TABLE_NAME FROM INFORMATION_SCHEMA.TABLES",
   "CREATE TABLE t (id INTEGER)", "~~~sql\nSELECT 1\n~~~\nDone."} \cup Fenced

DocReplies ==
  {FindActiveUsers, FindAllUsers, FilterOnly, JsonArray, "Sure! Here is the query"}
    \cup Fenced

RichInputs ==
  [urls |-> Urls, questions |-> Questions, sqlReplies |-> SqlReplies,
   docReplies |-> DocReplies, modelErrors |-> {"OpenAI API Error"},
   results |-> ResultSets, returns_rows |-> BOOLEAN, docs |-> DocSets,
   errors |-> ExecErrors, connectErrors |-> ConnectErrors,
   engineErrors |-> {EngineError}, schemas |-> TargetSchemas,
   brokenSchemas |-> TargetSchemas, elapsed |-> {0, 1}, storeUp |-> BOOLEAN]

\* one /query request, every input
Next ==
  \E r \in {1} :
    \/ Receive(r, RichInputs)
    \/ ResolveDialect(r)
    \/ MongoGenerate(r, RichInputs)
    \/ MongoExecute(r, RichInputs)
    \/ ListTablesShortcut(r, RichInputs)
    \/ Introspect(r, RichInputs)
    \/ GenerateSQL(r, RichInputs)
    \/ ExecuteSQL(r, RichInputs)
    \/ AppendHistory(r, RichInputs)
    \/ Respond(r)

Spec == Init /\ [][Next]_vars

\* no request is being handled
Quiet == \A r \in Reqs : pc[r] \in {"idle", "Responded", "Failed"}

\* the /query slots are used in order
NextSlot(r) == \A s \in Reqs : (s # HistorySlot /\ s < r) => pc[s] # "idle"

(***************************************************************************)
(* /query requests one after the other, each stage of which may fail, on   *)
(* the three paths.                                                        *)
(***************************************************************************)
RunInputs ==
  [urls |-> {"sqlite:///test.db", "mongodb://localhost/testdb"},
   questions |-> {"list tables", "count users"},
   sqlReplies |-> {"SELECT COUNT(*) FROM users"},
   docReplies |-> {FindActiveUsers}, modelErrors |-> {"OpenAI API Error"},
   results |-> {CountResult, DateResult}, returns_rows |-> {TRUE}, docs |-> {OneDoc},
   errors |-> {"relation \"users\" does not exist"}, connectErrors |-> ConnectErrors,
   engineErrors |-> {EngineError}, schemas |-> {<<"users">>},
   brokenSchemas |-> {}, elapsed |-> {1}, storeUp |-> BOOLEAN]

NextRuns ==
  \E r \in Reqs :
    \/ Quiet /\ NextSlot(r) /\ Receive(r, RunInputs)
    \/ ResolveDialect(r)
    \/ MongoGenerate(r, RunInputs)
    \/ MongoExecute(r, RunInputs)
    \/ ListTablesShortcut(r, RunInputs)
    \/ Introspect(r, RunInputs)
    \/ GenerateSQL(r, RunInputs)
    \/ ExecuteSQL(r, RunInputs)
    \/ AppendHistory(r, RunInputs)
    \/ Respond(r)

SpecRuns == Init /\ [][NextRuns]_vars

(***************************************************************************)
(* Successful /query requests one after the other, at equal or later       *)
(* instants, then one /history request.                                    *)
(***************************************************************************)
MaxLimit == 3

HistInputs ==
  [urls |-> {"sqlite:///test.db"},
   questions |-> {"list tables", "count users"},
   sqlReplies |-> {"SELECT COUNT(*) FROM users"},
   docReplies |-> {}, modelErrors |-> {},
   results |-> {CountResult}, returns_rows |-> {TRUE}, docs |-> {},
   errors |-> {}, connectErrors |-> {},
   engineErrors |-> {}, schemas |-> {<<"users">>},
   brokenSchemas |-> {}, elapsed |-> {0, 1}, storeUp |-> {TRUE},
   limits |-> (-1)..MaxLimit, readErrors |-> {"DB connection failed"}]

NextHist ==
  \E r \in Reqs :
    \/ Quiet /\ NextSlot(r) /\ pc[HistorySlot] = "idle" /\ Receive(r, HistInputs)
    \/ Quiet /\ GetHistory(r, HistInputs)
    \/ ResolveDialect(r)
    \/ ListTablesShortcut(r, HistInputs)
    \/ Introspect(r, HistInputs)
    \/ GenerateSQL(r, HistInputs)
    \/ ExecuteSQL(r, HistInputs)
    \/ AppendHistory(r, HistInputs)
    \/ Respond(r)

SpecHist == Init /\ [][NextHist]_vars

(***************************************************************************)
(* Two /query requests on the general path whose steps interleave, each    *)
(* with a statement that changes the target or reads it, or that fails.    *)
(***************************************************************************)
Concurrent == {1, 2}

TxInputs ==
  [urls |-> {"sqlite:///test.db"},
   questions |-> {"count users"},
   sqlReplies |-> {"CREATE TABLE t (id INTEGER)", "DROP TABLE users;"},
   docReplies |-> {}, modelErrors |-> {},
   results |-> {CountResult}, returns_rows |-> BOOLEAN, docs |-> {},
   errors |-> {"(sqlite3.OperationalError) no such table: users"},
   connectErrors |-> ConnectErrors,
   engineErrors |-> {}, schemas |-> {<<"users">>},
   brokenSchemas |-> {}, elapsed |-> {1}, storeUp |-> {TRUE}]

NextTx ==
  \E r \in Concurrent :
    \/ Receive(r, TxInputs)
    \/ ResolveDialect(r)
    \/ Introspect(r, TxInputs)
    \/ GenerateSQL(r, TxInputs)
    \/ ExecuteSQL(r, TxInputs)
    \/ AppendHistory(r, TxInputs)
    \/ Respond(r)

SpecTx == Init /\ [][NextTx]_vars

(***************************************************************************)
(* /query requests handled at the same time on the three paths, with a     *)
(* history store that works.                                               *)
(***************************************************************************)
Handlers == {1, 2, 3}

ConcInputs ==
  [urls |-> {"sqlite:///test.db", "mongodb://localhost/testdb"},
   questions |-> {"list tables", "count users"},
   sqlReplies |-> {"SELECT COUNT(*) FROM users"},
   docReplies |-> {FindActiveUsers}, modelErrors |-> {"OpenAI API Error"},
   results |-> {CountResult, DateResult}, returns_rows |-> {TRUE}, docs |-> {OneDoc},
   errors |-> {}, connectErrors |-> {},
   engineErrors |-> {}, schemas |-> {<<"users">>},
   brokenSchemas |-> {}, elapsed |-> {1}, storeUp |-> {TRUE}]

NextConc ==
  \E r \in Handlers :
    \/ Receive(r, ConcInputs)
    \/ ResolveDialect(r)
    \/ MongoGenerate(r, ConcInputs)
    \/ MongoExecute(r, ConcInputs)
    \/ ListTablesShortcut(r, ConcInputs)
    \/ Introspect(r, ConcInputs)
    \/ GenerateSQL(r, ConcInputs)
    \/ ExecuteSQL(r, ConcInputs)
    \/ AppendHistory(r, ConcInputs)
    \/ Respond(r)

SpecConc == Init /\ [][NextConc]_vars

(***************************************************************************)
(* Two /query requests whose handlers keep running: every call to the      *)
(* outside returns or raises, and a handler that can take a step does.     *)
(***************************************************************************)
LiveInputs ==
  [urls |-> {"sqlite:///test.db", "mongodb://localhost/testdb", "sqlite://[h/db"},
   questions |-> {"list tables", "count users"},
   sqlReplies |-> {"SELECT COUNT(*) FROM users"},
   docReplies |-> {FindActiveUsers}, modelErrors |-> {"OpenAI API Error"},
   results |-> {CountResult, DateResult}, returns_rows |-> {TRUE}, docs |-> {OneDoc},
   errors |-> {"relation \"users\" does not exist", "syntax error at or near \"FROM\""},
   connectErrors |-> ConnectErrors,
   engineErrors |-> {EngineError}, schemas |-> {<<"users">>},
   brokenSchemas |-> {<<"users">>}, elapsed |-> {1}, storeUp |-> BOOLEAN]

\* a step of the handler of request r
HandlerStep(r) ==
  \/ ResolveDialect(r)
  \/ MongoGenerate(r, LiveInputs)
  \/ MongoExecute(r, LiveInputs)
  \/ ListTablesShortcut(r, LiveInputs)
  \/ Introspect(r, LiveInputs)
  \/ GenerateSQL(r, LiveInputs)
  \/ ExecuteSQL(r, LiveInputs)
  \/ AppendHistory(r, LiveInputs)
  \/ Respond(r)

NextLive ==
  \E r \in Concurrent :
    \/ Receive(r, LiveInputs)
    \/ HandlerStep(r)

SpecLive ==
  Init /\ [][NextLive]_vars /\ \A r \in Concurrent : WF_vars(HandlerStep(r))

(***************************************************************************)
(* Properties.                                                             *)
(***************************************************************************)
Passed(r, mark) == \E i \in 1..Len(stages[r]) : stages[r][i] = mark

LastStage(r) == stages[r][Len(stages[r])]

IsQuery(r) == req[r].kind = "query"

Terminal(r) == pc[r] \in {"Responded", "Failed"}

\* the request is on the general relational path and its SQL is finalised
OnGeneralPath(r) == IsQuery(r) /\ Passed(r, "Sanitized") /\ ~IsMongo(r)

\* the questions of Questions that Python's re.search matches with the pattern
ListQuestions == {"list tables", "Show me all the TABLES"}

SupportedDialect(scheme) ==
  StartsWith(scheme, "postgres") \/ StartsWith(scheme, "mysql") \/ StartsWith(scheme, "sqlite")

\* C1: for every connection URL dialect resolution never fails, and the path
\* taken depends on the prefix of the scheme alone: the document-store path
\* exactly when the scheme begins with "mongodb", otherwise the relational
\* path with the dialect of the prefix.
C1_ResolutionTotal ==
  \A r \in Reqs :
    (IsQuery(r) /\ pc[r] # "Received") =>
      /\ Passed(r, "DialectResolved")
      /\ pc[r] # "DialectResolved" =>
           /\ (loc[r].system_prompt = MongoPrompt) <=> StartsWith(loc[r].scheme, "mongodb")

\* C1, the part the code keeps: a request whose URL urlparse accepts is
\* dispatched on the prefix of its scheme alone.
C1_DispatchOnPrefix ==
  \A r \in Reqs :
    (IsQuery(r) /\ Passed(r, "DialectResolved") /\ pc[r] # "DialectResolved") =>
      /\ (loc[r].system_prompt = MongoPrompt) <=> StartsWith(loc[r].scheme, "mongodb")
      /\ loc[r].is_list_tables_query =>
           loc[r].sql_query =
             (IF StartsWith(loc[r].scheme, "postgres") THEN PostgresListTables
              ELSE IF StartsWith(loc[r].scheme, "mysql") THEN MysqlListTables
              ELSE SqliteListTables)
      /\ (Passed(r, "PromptBuilt") /\ ~StartsWith(loc[r].scheme, "mongodb")) =>
           (Contains(loc[r].system_prompt, "SQLite") <=> StartsWith(loc[r].scheme, "sqlite"))

\* C2: a question matching the list/show-tables pattern on a postgres, mysql
\* or sqlite connection never invokes the model, whether the request succeeds
\* or fails, and the sql returned is the fixed listing statement of the dialect.
C2_ShortcutBypassesModel ==
  \A r \in Reqs :
    (IsQuery(r) /\ Passed(r, "DialectResolved") /\ req[r].question \in ListQuestions
       /\ SupportedDialect(loc[r].scheme)) =>
      /\ modelCalls[r] = 0
      /\ ~Passed(r, "ModelInvoked")
      /\ pc[r] = "Responded" =>
           resp[r].sql =
             (IF StartsWith(loc[r].scheme, "postgres") THEN PostgresListTables
              ELSE IF StartsWith(loc[r].scheme, "mysql") THEN MysqlListTables
              ELSE SqliteListTables)

C2_Witness ==
  \E r \in Reqs :
    /\ pc[r] = "Responded"
    /\ req[r].question = "Show me all the TABLES"
    /\ req[r].connection_url = "mysql+pymysql://u@h/db"
    /\ resp[r].sql = "SHOW TABLES;"
    /\ modelCalls[r] = 0

\* C3 as stated: on the relational path the finalised SQL ends with exactly
\* one ';' and never more, whatever the model output.
C3_ExactlyOneTerminator ==
  \A r \in Reqs :
    OnGeneralPath(r) =>
      EndsWith(loc[r].sql_query, ";") /\ ~EndsWith(loc[r].sql_query, ";;")

\* C3 amended: the finalised SQL always ends with ';', and a ';' is appended
\* only to a text that does not end with one: it ends with several only when
\* the sanitised model output did, the sqlite rewrite apart.
C3_TerminatorAppendedWhenAbsent ==
  \A r \in Reqs :
    OnGeneralPath(r) =>
      /\ EndsWith(loc[r].sql_query, ";")
      /\ EndsWith(loc[r].sql_query, ";;") => loc[r].sql_query = loc[r].sanitized
      /\ ~EndsWith(loc[r].sanitized, ";") =>
           loc[r].sql_query \in {loc[r].sanitized \o ";", SqliteListTables}

C3_Witness ==
  \E r \in Reqs :
    /\ pc[r] = "Responded"
    /\ loc[r].raw = "SELECT 1;;"
    /\ resp[r].sql = "SELECT 1;;"
    /\ resp[r].status = 200

\* C4: sanitising a text wrapped in a code fence gives the text with its
\* surrounding whitespace trimmed, whatever the text holds, in both modes.
C4_FenceRoundTrip ==
  \A r \in Reqs :
    (IsQuery(r) /\ Passed(r, "ModelInvoked")) =>
      \A tag \in FenceTags, t \in Interiors :
        loc[r].raw = Wrap(tag, t) => loc[r].sanitized = Strip(t)

C4_Witness ==
  \E r \in Reqs :
    /\ pc[r] = "Responded"
    /\ ~IsMongo(r)
    /\ loc[r].raw = Wrap("sql", "a\n~~~\nb")
    /\ loc[r].sanitized = "a\n~~~\nb"

\* C5: on a sqlite connection a query containing information_schema.tables in
\* any letter case is replaced as a whole by the sqlite_master listing, the
\* rewrite leaves its own output unchanged, and on any other dialect the
\* query is the sanitised text, with its terminator.
C5_SqliteRewrite ==
  \A r \in Reqs :
    OnGeneralPath(r) =>
      /\ (StartsWith(loc[r].scheme, "sqlite")
            /\ Contains(Lower(loc[r].sanitized), "information_schema.tables")) =>
           loc[r].sql_query = "SELECT name FROM sqlite_master WHERE type='table';"
      /\ ~StartsWith(loc[r].scheme, "sqlite") =>
           loc[r].sql_query \in {loc[r].sanitized, loc[r].sanitized \o ";"}
      /\ SqliteRewrite(loc[r].scheme, loc[r].sql_query) = loc[r].sql_query

C5_Witness ==
  \E r \in Reqs :
    /\ pc[r] = "Responded"
    /\ req[r].connection_url = "SQLITE:///test.db"
    /\ loc[r].raw = "SELECT TABLE_NAME FROM INFORMATION_SCHEMA.TABLES"
    /\ resp[r].sql = SqliteListTables

\* the request failed in the execution of the general path
FailedInExecution(r) ==
  OnGeneralPath(r) /\ pc[r] = "Failed" /\ LastStage(r) = "Sanitized"

AvailableClause == "Available tables"

\* C6 as stated: on an execution error containing "does not exist" the detail
\* lists the introspected tables when introspection succeeded and holds no
\* "Available tables" clause when it failed.
C6_ClauseOmittedWhenIntrospectionFailed ==
  \A r \in Reqs :
    (FailedInExecution(r) /\ Contains(loc[r].err_msg, "does not exist")) =>
      IF loc[r].reflected
      THEN Contains(resp[r].detail,
                    "Available tables: " \o JoinWith(loc[r].metadata.tables, ", "))
      ELSE ~Contains(resp[r].detail, AvailableClause)

\* C6 amended: on such an error the 400 detail always ends with the clause
\* "Available tables: " and the names of the tables metadata holds: all the
\* introspected tables when introspection succeeded, those reflected before
\* the failure (possibly none) when it failed.
C6_ClauseAlwaysPresent ==
  \A r \in Reqs :
    (FailedInExecution(r) /\ Contains(loc[r].err_msg, "does not exist")) =>
      /\ resp[r].status = 400
      /\ resp[r].detail = loc[r].err_msg \o ". Available tables: "
                            \o JoinWith(loc[r].metadata.tables, ", ")
      /\ loc[r].reflected =>
           \E t \in TargetSchemas :
             /\ loc[r].metadata.tables = t
             /\ loc[r].schema_info = SchemaInfo(t)

C6_Witness ==
  \E r \in Reqs :
    /\ FailedInExecution(r)
    /\ loc[r].err_msg = "relation \"users\" does not exist"
    /\ ~loc[r].reflected
    /\ loc[r].metadata.tables = <<>>
    /\ resp[r].detail = "relation \"users\" does not exist. Available tables: "

\* C8: a statement of the general path that runs and returns no row set gives
\* status 200 with columns = [] and rows = [], one that returns a row set gives
\* its column names and one record per row, and a request fails in execution
\* only on an exception of the engine, of the connection or of the statement.
C8_NoRowSetIsSuccess ==
  \A r \in Reqs :
    OnGeneralPath(r) =>
      /\ Passed(r, "Executed") =>
           /\ IF loc[r].result.returns_rows
              THEN /\ loc[r].columns = loc[r].result.keys
                   /\ loc[r].rows = loc[r].result.fetched
              ELSE loc[r].columns = <<>> /\ loc[r].rows = <<>>
           /\ pc[r] # "Failed"
           /\ pc[r] = "Responded" =>
                /\ resp[r].status = 200
                /\ resp[r].columns = loc[r].columns
                /\ resp[r].rows = loc[r].rows
      /\ pc[r] = "Failed" =>
           loc[r].err_msg \in ExecErrors \cup ConnectErrors \cup {EngineError}

C8_Witness ==
  \E r \in Reqs :
    /\ pc[r] = "Responded"
    /\ resp[r].sql = "CREATE TABLE t (id INTEGER);"
    /\ ~loc[r].result.returns_rows
    /\ resp[r].status = 200
    /\ resp[r].columns = <<>>
    /\ resp[r].rows = <<>>

\* the two requests ran the same query with the same result
SameExecution(q, r) ==
  /\ req[q] = req[r]
  /\ DisplayQuery(loc[q]) = DisplayQuery(loc[r])
  /\ loc[q].columns = loc[r].columns
  /\ loc[q].rows = loc[r].rows

\* C7: a /query request whose execution succeeded and whose history append
\* failed, on an outage of the store or on rows json cannot serialise, still
\* answers 200 with its query, columns and rows: the same status and body as
\* the same request run with a working history store.
C7_AppendFailureSwallowed ==
  \A r \in Reqs :
    (IsQuery(r) /\ Terminal(r) /\ loc[r].append \in {"outage", "unserializable"}) =>
      /\ pc[r] = "Responded"
      /\ resp[r].status = 200
      /\ resp[r].sql = DisplayQuery(loc[r])
      /\ resp[r].columns = loc[r].columns
      /\ resp[r].rows = loc[r].rows
      /\ \A q \in Reqs :
           (Terminal(q) /\ loc[q].append = "stored" /\ SameExecution(q, r)) =>
             resp[q] = resp[r]

C7_Witness ==
  \E q, r \in Reqs :
    /\ pc[q] = "Responded" /\ pc[r] = "Responded"
    /\ loc[q].append = "stored"
    /\ loc[r].append = "outage"
    /\ SameExecution(q, r)
    /\ resp[q] = resp[r]
    /\ Len(history) = 1

\* what C9 says of the entries returned, their number apart: each is a stored
\* entry with rows the value its result serialises, none is returned twice,
\* an entry comes before those created earlier, and the entries left out
\* were created no later than those returned
ItemsAreMostRecent(items) ==
  /\ \A i \in 1..Len(items) :
       \E m \in 1..Len(history) :
         /\ items[i].id = history[m].id
         /\ items[i].question = history[m].question
         /\ items[i].sql = history[m].sql
         /\ items[i].created_at = history[m].created_at
         /\ JsonSerializable(items[i].rows)
         /\ JsonDumps(items[i].rows) = history[m].result
  /\ \A i, j \in 1..Len(items) :
       i < j => /\ items[i].id # items[j].id
                /\ \/ items[i].id > items[j].id
                   \/ items[i].created_at = items[j].created_at
  /\ \A m \in 1..Len(history) :
       (\A i \in 1..Len(items) : items[i].id # history[m].id) =>
         \A i \in 1..Len(items) :
           \/ items[i].id > history[m].id
           \/ items[i].created_at = history[m].created_at

HistoryAnswered == pc[HistorySlot] = "Responded"

\* C9 as stated: GET /history with limit L returns exactly min(L, n) of the n
\* stored entries, the most recently created ones, by created_at descending,
\* each with rows the deserialisation of its result; the default limit is 100.
C9_ExactlyMinOfLimit ==
  HistoryAnswered =>
    /\ Len(resp[HistorySlot].items) = Min(req[HistorySlot].limit, Len(history))
    /\ ItemsAreMostRecent(resp[HistorySlot].items)
    /\ req[HistorySlot].kind = "history" => req[HistorySlot].limit = 100

\* C9 amended: with a limit L >= 0 GET /history returns exactly min(L, n) of
\* the n stored entries and with a negative limit all n of them; they are the
\* most recently created ones, by created_at descending, each with rows the
\* deserialisation of its result; the default limit is 100.
C9_MinOfLimitOrAll ==
  HistoryAnswered =>
    /\ Len(resp[HistorySlot].items) =
         (IF req[HistorySlot].limit >= 0
          THEN Min(req[HistorySlot].limit, Len(history))
          ELSE Len(history))
    /\ ItemsAreMostRecent(resp[HistorySlot].items)
    /\ req[HistorySlot].kind = "history" => req[HistorySlot].limit = 100

C9_Witness ==
  /\ HistoryAnswered
  /\ Len(history) = 3
  /\ req[HistorySlot].limit = 2
  /\ Len(resp[HistorySlot].items) = 2
  /\ resp[HistorySlot].items[1].id = 3
  /\ resp[HistorySlot].items[2].id = 2
  /\ history[1].created_at # history[2].created_at
  /\ history[2].created_at # history[3].created_at

\* the requests that returned 200
Succeeded == {r \in Reqs : IsQuery(r) /\ pc[r] = "Responded" /\ resp[r].status = 200}

\* C10 as stated: with a working history store, after any sequence of /query
\* requests the store holds as many entries as requests returned 200.
C10_OneEntryPerSuccess ==
  (Quiet /\ \A r \in Reqs : loc[r].append # "outage") =>
    Len(history) = Cardinality(Succeeded)

\* the request ran its query, met no outage of the store, and its rows are
\* ones json serialises
Recorded(r) ==
  /\ IsQuery(r)
  /\ pc[r] \in {"HistoryAppended", "Responded"}
  /\ loc[r].append # "outage"
  /\ JsonSerializable(loc[r].rows)

\* C10 amended: the store holds exactly one entry for each request that ran
\* its query with rows json serialises and met no outage of the store, and
\* none for any other: a request that fails at any stage adds no entry, and
\* neither does a request that returns 200 with rows json cannot serialise.
C10_OneEntryPerRecordedSuccess ==
  /\ Len(history) = Cardinality({r \in Reqs : Recorded(r)})
  /\ \A r \in Reqs : Recorded(r) =>
       \E m \in 1..Len(history) :
         /\ history[m].id = m
         /\ history[m].question = req[r].question
         /\ history[m].sql = DisplayQuery(loc[r])
         /\ history[m].result = JsonDumps(loc[r].rows)
  /\ \A r \in Reqs : pc[r] = "Failed" => loc[r].append = "none"

C10_Witness ==
  /\ Quiet
  /\ Len(history) = 1
  /\ \E f, u, s \in Reqs :
       /\ pc[f] = "Failed" /\ IsQuery(f)
       /\ pc[u] = "Responded" /\ loc[u].append = "unserializable"
       /\ pc[s] = "Responded" /\ loc[s].append = "stored"

\* the model call of the request raised
ModelCallFailed(r) ==
  IsQuery(r) /\ pc[r] = "Failed" /\ LastStage(r) = "PromptBuilt"

\* C11: a failure of the model call ends the request with status 500 and the
\* detail "Error generating SQL: <cause>" on the relational path, "Error
\* generating MongoDB query: <cause>" on the document-store path, and nothing
\* of the executor has run: no client, no find, no transaction, no result.
C11_ModelFailureIs500 ==
  \A r \in Reqs :
    ModelCallFailed(r) =>
      /\ resp[r].status = 500
      /\ resp[r].detail =
           (IF StartsWith(loc[r].scheme, "mongodb")
            THEN "Error generating MongoDB query: OpenAI API Error"
            ELSE "Error generating SQL: OpenAI API Error")
      /\ modelCalls[r] = 1
      /\ ~Passed(r, "Executed")
      /\ loc[r].client = "unset" /\ ~loc[r].find.called
      /\ loc[r].tx = "none" /\ loc[r].err_msg = ""
      /\ loc[r].result = NoLoc.result /\ loc[r].rows = <<>>

C11_Witness ==
  \E r \in Reqs :
    /\ ModelCallFailed(r)
    /\ req[r].connection_url = "mongodb+srv://h/testdb"
    /\ resp[r].status = 500
    /\ resp[r].detail = "Error generating MongoDB query: OpenAI API Error"

\* the connection to the target or the execution on it raised
ExecutionRaised(r) == IsQuery(r) /\ loc[r].err_msg # ""

\* C12: a connection or execution failure against the target, on the find of
\* the document store, on the list-tables shortcut and on the transactional
\* execution alike, ends the request with status 400 and a detail that tells
\* the failure; the request is never answered 500 or 200.
C12_ExecutionFailureIs400 ==
  \A r \in Reqs :
    ExecutionRaised(r) =>
      /\ pc[r] = "Failed"
      /\ resp[r].status = 400
      /\ resp[r].by = "HTTPException"
      /\ Contains(resp[r].detail, loc[r].err_msg)
      /\ ~Passed(r, "Executed")
      /\ loc[r].append = "none"

C12_Witness ==
  \E a, b, c \in Reqs :
    /\ IsMongo(a)
    /\ resp[a].status = 400
    /\ resp[a].detail = "MongoDB execution error: connection refused"
    /\ loc[b].is_list_tables_query
    /\ resp[b].status = 400
    /\ resp[b].detail = "Error executing list tables query: connection refused"
    /\ OnGeneralPath(c)
    /\ resp[c].status = 400
    /\ resp[c].detail = "SQL execution error: connection refused"

\* the document-store request ran its find
FindRan(r) == IsQuery(r) /\ IsMongo(r) /\ Passed(r, "Executed")

\* the find the reply of the model asks for, read off its sanitised text
FindAskedFor(r) ==
  /\ loc[r].find.called
  /\ loc[r].sanitized = FindActiveUsers =>
       /\ loc[r].find.collection = "users"
       /\ loc[r].find.filter = "{\"status\": \"active\"}"
  /\ loc[r].sanitized = FindAllUsers =>
       /\ loc[r].find.collection = "users"
       /\ loc[r].find.filter = "{}"

\* C13 as stated: on the document-store path the find runs on the collection
\* and with the filter of the model output, and the sql of the response is
\* the raw text the model returned.
C13_SqlIsRawText ==
  \A r \in Reqs :
    FindRan(r) =>
      /\ FindAskedFor(r)
      /\ pc[r] = "Responded" => resp[r].sql = loc[r].raw

\* C13 amended: the find runs on the collection and with the filter of the
\* model output, and the sql of the response is the sanitised model output:
\* the raw text without its surrounding whitespace and code fence, which is
\* the raw text when the model returns bare JSON.
C13_SqlIsSanitizedText ==
  \A r \in Reqs :
    FindRan(r) =>
      /\ FindAskedFor(r)
      /\ loc[r].sanitized \in {FindActiveUsers, FindAllUsers}
      /\ pc[r] = "Responded" =>
           /\ resp[r].sql = loc[r].sanitized
           /\ \A tag \in FenceTags :
                loc[r].raw \in {FindActiveUsers, Wrap(tag, FindActiveUsers)} =>
                  resp[r].sql = FindActiveUsers

C13_Witness ==
  \E r \in Reqs :
    /\ pc[r] = "Responded"
    /\ FindRan(r)
    /\ loc[r].raw = Wrap("", FindActiveUsers)
    /\ resp[r].sql = FindActiveUsers
    /\ loc[r].find = [called |-> TRUE, collection |-> "users",
                      filter |-> "{\"status\": \"active\"}"]

\* C14: when the execution of the general path fails with a message
\* containing "does not exist" after introspection found tables, the
\* response is 400 and its detail holds both "SQL execution error: " followed
\* by the message and "Available tables: " followed by the tables' names.
C14_PrefixAndAvailableTables ==
  \A r \in Reqs :
    (FailedInExecution(r) /\ Contains(loc[r].err_msg, "does not exist")
       /\ loc[r].reflected /\ loc[r].metadata.tables # <<>>) =>
      /\ resp[r].status = 400
      /\ Contains(resp[r].detail, "SQL execution error: " \o loc[r].err_msg)
      /\ Contains(resp[r].detail,
                  "Available tables: " \o JoinWith(loc[r].metadata.tables, ", "))

\* the model replied to the document-store request
DocReplied(r) == IsQuery(r) /\ IsMongo(r) /\ Passed(r, "ModelInvoked")

\* the texts of the replies that are JSON objects with a collection key
DocsWithCollection == {FindActiveUsers, FindAllUsers}

\* C15: on the document-store path a model output that is not valid JSON or
\* has no collection key ends the request with status 500 before any client
\* of the document store is created, and an output without a filter key
\* runs its find with the empty filter.
C15_UnparsableReplyIs500 ==
  \A r \in Reqs :
    DocReplied(r) =>
      /\ loc[r].sanitized \notin DocsWithCollection =>
           /\ pc[r] = "Failed"
           /\ resp[r].status = 500
           /\ StartsWith(resp[r].detail, "Error generating MongoDB query: ")
           /\ loc[r].client = "unset"
           /\ ~loc[r].find.called
           /\ loc[r].err_msg = ""
      /\ (loc[r].sanitized = FindAllUsers /\ Passed(r, "Executed")) =>
           loc[r].find = [called |-> TRUE, collection |-> "users", filter |-> "{}"]

C15_Witness ==
  \E r \in Reqs :
    /\ DocReplied(r)
    /\ loc[r].raw = FilterOnly
    /\ pc[r] = "Failed"
    /\ resp[r].status = 500
    /\ resp[r].detail = "Error generating MongoDB query: 'collection'"
    /\ loc[r].client = "unset"

\* the read of the history store raised
HistoryReadRaised == loc[HistorySlot].err_msg # ""

\* C16: when the read of the history store raises, GET /history answers 500
\* with the detail "Error fetching history: " followed by the cause; it
\* answers no 200 and no list, empty or partial.
C16_ReadFailureIs500 ==
  HistoryReadRaised =>
    /\ pc[HistorySlot] = "Failed"
    /\ resp[HistorySlot].status = 500
    /\ resp[HistorySlot].detail = "Error fetching history: " \o loc[HistorySlot].err_msg
    /\ resp[HistorySlot].items = <<>>

C16_Witness ==
  /\ HistoryReadRaised
  /\ Len(history) = 2
  /\ pc[HistorySlot] = "Failed"
  /\ resp[HistorySlot].status = 500
  /\ resp[HistorySlot].detail = "Error fetching history: DB connection failed"

\* the stages of a /query request, in their order
StageOrder ==
  <<"Received", "DialectResolved", "SchemaIntrospected", "PromptBuilt", "ModelInvoked",
    "Sanitized", "Executed", "HistoryAppended", "Responded">>

RankOf(mark) == CHOOSE i \in 1..Len(StageOrder) : StageOrder[i] = mark

\* the stages the request passed are stages of StageOrder, in its order, and
\* none was skipped but schema introspection and, on the shortcut, the model
StagesInOrder(r) ==
  /\ \A i \in 1..Len(stages[r]) : \E k \in 1..Len(StageOrder) : StageOrder[k] = stages[r][i]
  /\ \A i, j \in 1..Len(stages[r]) :
       i < j => RankOf(stages[r][i]) < RankOf(stages[r][j])
  /\ Passed(r, "SchemaIntrospected") => Passed(r, "DialectResolved")
  /\ Passed(r, "PromptBuilt") =>
       /\ Passed(r, "DialectResolved")
       /\ ~IsMongo(r) => Passed(r, "SchemaIntrospected")
  /\ Passed(r, "ModelInvoked") => Passed(r, "PromptBuilt") /\ modelCalls[r] = 1
  /\ Passed(r, "Sanitized") => Passed(r, "ModelInvoked")
  /\ Passed(r, "Executed") =>
       /\ Passed(r, "DialectResolved")
       /\ modelCalls[r] > 0 => Passed(r, "Sanitized")
       /\ modelCalls[r] = 0 => loc[r].is_list_tables_query
  /\ Passed(r, "HistoryAppended") => Passed(r, "Executed") /\ loc[r].append # "none"
  /\ ~Passed(r, "HistoryAppended") => loc[r].append = "none"
  /\ Passed(r, "Responded") => Passed(r, "HistoryAppended") /\ resp[r].status = 200

\* a failed request has run nothing after the stage that failed
NothingAfterFailure(r) ==
  pc[r] = "Failed" =>
    /\ ~Passed(r, "Executed") /\ ~Passed(r, "HistoryAppended") /\ ~Passed(r, "Responded")
    /\ resp[r].status \in {400, 500}
    /\ (~Passed(r, "Sanitized") /\ ~loc[r].is_list_tables_query) =>
         /\ loc[r].err_msg = "" /\ loc[r].tx = "none"
         /\ loc[r].client = "unset" /\ loc[r].result = NoLoc.result
    /\ ~Passed(r, "PromptBuilt") => modelCalls[r] = 0 \/ loc[r].is_list_tables_query

\* a failed request takes no further step
FailedStays(r) ==
  pc[r] = "Failed" =>
    /\ pc'[r] = pc[r] /\ stages'[r] = stages[r] /\ loc'[r] = loc[r]
    /\ resp'[r] = resp[r] /\ modelCalls'[r] = modelCalls[r]

ListingOnOtherDialect(r) ==
  /\ IsQuery(r)
  /\ Passed(r, "DialectResolved") /\ pc[r] # "DialectResolved"
  /\ req[r].question \in ListQuestions
  /\ ~StartsWith(loc[r].scheme, "mongodb")
  /\ ~SupportedDialect(loc[r].scheme)

\* C18: a list/show-tables question on a relational connection that is not
\* postgres, mysql or sqlite takes no shortcut: schema introspection, one
\* model invocation, sanitisation and the transactional execution, as for
\* any other question.
C18_NoShortcutOnOtherDialect ==
  \A r \in Reqs :
    ListingOnOtherDialect(r) =>
      /\ ~loc[r].is_list_tables_query
      /\ Passed(r, "SchemaIntrospected")
      /\ pc[r] # "SchemaIntrospected" =>
           /\ modelCalls[r] = 1
           /\ Contains(loc[r].system_prompt, "SQL queries for SQL databases")
      /\ Passed(r, "Sanitized") =>
           loc[r].sql_query \in {loc[r].sanitized, loc[r].sanitized \o ";"}
      /\ Passed(r, "Executed") => loc[r].tx = "committed"
      /\ pc[r] = "Responded" =>
           /\ stages[r] = StageOrder
           /\ resp[r].sql = loc[r].sql_query

C18_Witness ==
  \E r \in Reqs :
    /\ ListingOnOtherDialect(r)
    /\ req[r].connection_url = "mssql://h/db"
    /\ req[r].question = "list tables"
    /\ pc[r] = "Responded"
    /\ modelCalls[r] = 1
    /\ loc[r].tx = "committed"
    /\ stages[r] = StageOrder

\* the request is on the general relational path, past its first stage
PastIntrospection(r) ==
  /\ IsQuery(r)
  /\ Passed(r, "DialectResolved") /\ pc[r] # "DialectResolved"
  /\ ~StartsWith(loc[r].scheme, "mongodb")
  /\ ~loc[r].is_list_tables_query

TablesClause == "This database has the following tables: "

\* C19: a failure of schema introspection does not fail the request: it goes
\* on to the model invocation with an empty schema description, and the
\* instruction sent to the model holds the clause "This database has the
\* following tables: <description>" exactly when the description is not empty.
C19_IntrospectionFailureTolerated ==
  \A r \in Reqs :
    PastIntrospection(r) =>
      /\ Passed(r, "SchemaIntrospected")
      /\ ~loc[r].reflected => loc[r].schema_info = ""
      /\ loc[r].metadata.tables = <<"users", "orders">> /\ loc[r].reflected =>
           loc[r].schema_info = "users(id, name); orders(id)"
      /\ pc[r] # "SchemaIntrospected" =>
           /\ Passed(r, "PromptBuilt")
           /\ modelCalls[r] = 1
           /\ Contains(loc[r].system_prompt, TablesClause) <=> loc[r].schema_info # ""
           /\ loc[r].schema_info # "" =>
                EndsWith(loc[r].system_prompt, TablesClause \o loc[r].schema_info)

C19_Witness ==
  \E r \in Reqs :
    /\ PastIntrospection(r)
    /\ ~loc[r].reflected
    /\ loc[r].metadata.tables = <<"users">>
    /\ loc[r].schema_info = ""
    /\ pc[r] = "Responded"
    /\ modelCalls[r] = 1
    /\ ~Contains(loc[r].system_prompt, TablesClause)

\* the request ran a statement of the general path that returned no row set
AppliedStatement(r) ==
  OnGeneralPath(r) /\ Passed(r, "Executed") /\ ~loc[r].result.returns_rows

\* the statements the target holds are those of the requests whose
\* transaction committed, and a request's transaction ends one way
TargetIsCommitted ==
  /\ target = {loc[r].sql_query : r \in {q \in Reqs : AppliedStatement(q)}}
  /\ \A r \in Reqs :
       OnGeneralPath(r) =>
         /\ FailedInExecution(r) =>
              loc[r].tx = (IF loc[r].engine = "error" THEN "none" ELSE "rolled back")
         /\ loc[r].tx = "rolled back" => pc[r] = "Failed" /\ resp[r].status = 400
         /\ Passed(r, "Executed") => loc[r].tx = "committed"
         /\ (pc[r] = "Responded" /\ ~loc[r].result.returns_rows) =>
              /\ resp[r].status = 200
              /\ resp[r].sql \in target

\* a step of a request changes the target only by committing its statement,
\* whole; a failing execution and every other step leave the target as it was
StepIsAtomic(r) ==
  /\ (pc[r] = "Sanitized" /\ pc'[r] = "Failed") => target' = target
  /\ (pc[r] = "Sanitized" /\ pc'[r] = "Executed") =>
       target' \in {target, target \cup {loc[r].sql_query}}
  /\ (pc'[r] # pc[r] /\ pc[r] # "Sanitized") => target' = target

\* C20: on the general relational path the finalised query runs in one
\* transaction: a failing statement leaves the target as it was before the
\* request, a request answered 200 has its statement committed, and no
\* interleaving of the steps of requests leaves a statement applied in part.
C20_SingleTransaction ==
  /\ []TargetIsCommitted
  /\ [][\A r \in Reqs : StepIsAtomic(r)]_vars

C20_Witness ==
  \E a, b \in Reqs :
    /\ FailedInExecution(a)
    /\ loc[a].sql_query = "DROP TABLE users;"
    /\ loc[a].tx = "rolled back"
    /\ pc[b] = "Responded"
    /\ resp[b].sql = "CREATE TABLE t (id INTEGER);"
    /\ loc[b].tx = "committed"
    /\ target = {"CREATE TABLE t (id INTEGER);"}

\* entry m of the store holds the question, query text and result of r
EntryOf(m, r) ==
  /\ history[m].question = req[r].question
  /\ history[m].sql = DisplayQuery(loc[r])
  /\ history[m].result = JsonDumps(loc[r].rows)

\* the entries have distinct ids, and each is the entry of one request of
\* `writers`, no two of them of the same request
EntriesOfDistinct(writers) ==
  /\ \A m, n \in 1..Len(history) : m # n => history[m].id # history[n].id
  /\ \E f \in [1..Len(history) -> Reqs] :
       /\ \A m, n \in 1..Len(history) : f[m] = f[n] => m = n
       /\ \A m \in 1..Len(history) : f[m] \in writers /\ EntryOf(m, f[m])

\* a step of a request leaves what the other requests hold as it is
OthersUntouched(r) ==
  pc'[r] # pc[r] =>
    \A q \in Reqs \ {r} :
      /\ pc'[q] = pc[q] /\ req'[q] = req[q] /\ loc'[q] = loc[q]
      /\ resp'[q] = resp[q] /\ stages'[q] = stages[q] /\ modelCalls'[q] = modelCalls[q]

\* C21 as stated: whatever the interleaving of concurrent /query requests,
\* with a working store N requests answered 200 leave exactly N entries, with
\* pairwise distinct ids, each with the question, query text and result of
\* one request.
C21_OneEntryPerConcurrentSuccess ==
  (Quiet /\ \A r \in Reqs : loc[r].append # "outage") =>
    /\ Len(history) = Cardinality(Succeeded)
    /\ EntriesOfDistinct(Succeeded)

\* C21 amended: whatever the interleaving, a step of a request touches no
\* other request, and with a working store the requests that ran their query
\* with rows json serialises leave exactly one entry each, with pairwise
\* distinct ids, each with the question, query text and result of one
\* request; a request answered 200 with rows json cannot serialise leaves none.
C21_OneEntryPerRecordedConcurrentSuccess ==
  /\ [](/\ Len(history) = Cardinality({r \in Reqs : Recorded(r)})
        /\ EntriesOfDistinct({r \in Reqs : Recorded(r)}))
  /\ [][\A r \in Reqs : OthersUntouched(r)]_vars

C21_Witness ==
  /\ Quiet
  /\ Len(history) = 3
  /\ \A r \in Handlers : pc[r] = "Responded" /\ loc[r].append = "stored"
  /\ IsMongo(1) /\ loc[2].is_list_tables_query /\ OnGeneralPath(3)
  /\ \E m \in 1..3 : history[m].id = 1 /\ EntryOf(m, 3)
  /\ \E m \in 1..3 : history[m].id = 3 /\ EntryOf(m, 1)

\* the outcome of the request is the one its last stage maps to: 200 when it
\* responded; when it failed, 500 with the exception's text if dialect
\* resolution raised, 500 "Error generating ..." if the generation raised,
\* 400 with the exception's text if the execution raised; no response before
OutcomeMapped(r) ==
  /\ ~Terminal(r) => resp[r] = NoResp
  /\ pc[r] = "Responded" => resp[r].status = 200 /\ resp[r].detail = ""
  /\ pc[r] = "Failed" =>
       /\ resp[r].detail # ""
       /\ LastStage(r) \in {"Received", "DialectResolved", "PromptBuilt", "ModelInvoked",
                            "Sanitized"}
       /\ LastStage(r) = "Received" =>
            /\ resp[r].status = 500
            /\ resp[r].by = "generic_exception_handler"
            /\ resp[r].detail = "Invalid IPv6 URL"
       /\ LastStage(r) \in {"PromptBuilt", "ModelInvoked"} =>
            /\ resp[r].status = 500
            /\ resp[r].by = "HTTPException"
            /\ StartsWith(resp[r].detail, "Error generating ")
       /\ LastStage(r) \in {"DialectResolved", "Sanitized"} =>
            /\ resp[r].status = 400
            /\ resp[r].by = "HTTPException"
            /\ loc[r].err_msg # ""
            /\ Contains(resp[r].detail, loc[r].err_msg)

\* a request that reached its outcome keeps it
OutcomeKept(r) ==
  Terminal(r) => pc'[r] = pc[r] /\ resp'[r] = resp[r]

\* C22: if every external call returns or raises, every /query request
\* reaches one terminal outcome, Responded with 200 or Failed, and keeps it;
\* a failing stage maps to one status and detail, 500 for the generation and
\* 400 for the execution, and the exception the handler lets out is answered
\* 500 by generic_exception_handler.
C22_EveryRequestAnswered ==
  /\ \A r \in Concurrent : (pc[r] = "Received") ~> Terminal(r)
  /\ [](\A r \in Reqs : IsQuery(r) => OutcomeMapped(r))
  /\ [][\A r \in Reqs : OutcomeKept(r)]_vars

C22_Witness ==
  \E a, b \in Reqs :
    /\ pc[a] = "Failed"
    /\ resp[a].status = 500
    /\ resp[a].by = "generic_exception_handler"
    /\ pc[b] = "Responded"
    /\ resp[b].status = 200
    /\ loc[b].append = "unserializable"

\* C23: while a relational /query request is handled, to its success or to
\* an execution failure, create_engine is called with the history database
\* URL as well as with the connection URL of the request.
C23_HistoryEngineCreatedPerRequest ==
  \A r \in Reqs :
    (IsQuery(r) /\ ~IsMongo(r) /\ (Passed(r, "Executed") \/ FailedInExecution(r)))
      => {req[r].connection_url, HistoryUrl} \subseteq CreateEngineUrls(r)

\* entry m of the store holds the question of request r, the query text of
\* its response and the JSON text of the rows of its response
EntryOfResponse(m, r) ==
  /\ history[m].question = req[r].question
  /\ history[m].sql = resp[r].sql
  /\ history[m].result = JsonDumps(resp[r].rows)

\* the requests answered 200 whose entry was written
StoredAndAnswered ==
  {r \in Reqs : IsQuery(r) /\ pc[r] = "Responded" /\ loc[r].append = "stored"}

\* C24: an entry written to the history holds the question of its request,
\* the query text returned as `sql` and the JSON serialisation of the rows
\* returned, on the shortcut, general and document-store paths: every
\* answered request whose entry was written finds it in the store, and once
\* the requests are answered every entry is the entry of one of them.
C24_EntryMatchesResponse ==
  /\ \A r \in StoredAndAnswered : \E m \in 1..Len(history) : EntryOfResponse(m, r)
  /\ Quiet => \A m \in 1..Len(history) : \E r \in StoredAndAnswered : EntryOfResponse(m, r)

C24_Witness ==
  /\ Quiet
  /\ Len(history) = 3
  /\ \E a, b, c \in StoredAndAnswered :
       /\ loc[a].is_list_tables_query /\ EntryOfResponse(1, a)
       /\ OnGeneralPath(b) /\ EntryOfResponse(2, b)
       /\ history[2].sql = "SELECT COUNT(*) FROM users;"
       /\ IsMongo(c) /\ EntryOfResponse(3, c)
       /\ history[3].sql = FindActiveUsers
       /\ history[3].result # "[]"

=============================================================================
